---- MODULE Spec2Model ----
(***************************************************************************)
(* The network troubleshooter of src/ca/ca.py.                             *)
(*                                                                         *)
(* Strings are sequences of one-character strings, so that str.strip(),    *)
(* ':' in addr and the literal parsers work on characters.  An Optional    *)
(* value is a sequence of length at most one: None is << >>, Some(x) is    *)
(* << x >>; the empty string (the empty character sequence) wrapped in     *)
(* Some is therefore different from None.                                  *)
(*                                                                         *)
(* Three specifications share the variables:                               *)
(*   Spec          one run of main()                                       *)
(*   SpecProbe     one call of scapy_ping_once                             *)
(*   SpecPublicIp  one call of get_public_ip                               *)
(***************************************************************************)
EXTENDS Integers, Sequences, FiniteSets, TLC

VARIABLES
    SCAPY_AVAILABLE,      \* module global, set at import
    DNSPYTHON_AVAILABLE,  \* module global, set at import
    REQUESTS_AVAILABLE,   \* module global, set at import
    privileged,           \* whether the process may open a raw socket
    no_ping,              \* args.no_ping
    quiet,                \* args.quiet
    user_targets,         \* args.ping or []
    pc,                   \* position of the run
    dns_list,             \* main's local dns_list
    idx,                  \* index of the running for loop of print_pings
    report,               \* the ping lines printed so far, in order
    snapshot,             \* what print_network_info printed: None or Some(record)
    dnsCalls,             \* number of get_dns_servers() invocations
    probeCalls,           \* number of scapy_ping_once() invocations
    last,                 \* the last iteration of print_pings, with the probe's return
    fault,                \* the exception that left main(), "none" if none
    arg,                  \* SpecProbe / SpecPublicIp: the call's inputs
    ret                   \* SpecProbe / SpecPublicIp: the call's return

vars == << SCAPY_AVAILABLE, DNSPYTHON_AVAILABLE, REQUESTS_AVAILABLE, privileged,
           no_ping, quiet, user_targets, pc, dns_list, idx, report, snapshot, dnsCalls, probeCalls,
           last, fault, arg, ret >>

\* ---------------------------------------------------------------- bounds
MaxDns == 1
MaxTargets == 1

\* ---------------------------------------------------------------- values
None == << >>
Some(x) == << x >>

\* A str that holds a lone surrogate: what sys.argv holds for an undecodable byte.
Surrogate == "U+DCFF"

PUBLIC_DNS == << "8", ".", "8", ".", "8", ".", "8" >>
Dns4 == << "9", ".", "9", ".", "9", ".", "9" >>
Dns6 == << "f", "d", ":", ":", "1" >>
HostName == << "h", "o", "s", "t" >>
Lit4 == << "1", ".", "1", ".", "1", ".", "1" >>
Lit6 == << ":", ":", "1" >>
ColonName == << "a", ":", "b" >>
BadArg == << Surrogate >>
Addr1 == << "2", ".", "2", ".", "2", ".", "2" >>
Addr2 == << "3", ".", "3", ".", "3", ".", "3" >>
LocalAddr == << "7", ".", "0", ".", "0", ".", "2" >>
NoneFound == << "<none found>" >>

DnsAddrs == { Dns4, Dns6 }
UserAlphabet == { HostName, Lit4, BadArg }
ProbeAlphabet == { PUBLIC_DNS, Dns4, Dns6, HostName, Lit4, Lit6, ColonName, BadArg, << >> }
ResolverAnswers == { Addr1, Addr2 }

SeqsUpTo(S, n) == UNION { [1..k -> S] : k \in 0..n }

Digits == { "0", "1", "2", "3", "4", "5", "6", "7", "8", "9" }
HexDigits == Digits \cup { "a", "b", "c", "d", "e", "f" }
Whitespace == { " ", "\n" }

\* ---------------------------------------------------------------- the socket module
\* PyArg_ParseTuple "s": a str that does not encode to UTF-8 raises
\* UnicodeEncodeError, a ValueError and not an OSError.
Encodable(s) == \A i \in DOMAIN s : s[i] # Surrogate

\* Dotted quads only: the shorthand and hexadecimal forms inet_aton also accepts
\* are not among the inputs.
IsDottedQuad(s) ==
    /\ Len(s) > 0
    /\ \A i \in DOMAIN s : s[i] \in Digits \cup { "." }
    /\ Cardinality({ i \in DOMAIN s : s[i] = "." }) = 3
    /\ s[1] # "." /\ s[Len(s)] # "."
    /\ \A i \in DOMAIN s : (s[i] = "." /\ i < Len(s)) => s[i + 1] # "."

IsV6Literal(s) ==
    /\ Len(s) > 1
    /\ \A i \in DOMAIN s : s[i] \in HexDigits \cup { ":" }
    /\ Cardinality({ i \in DOMAIN s : s[i] = ":" }) > 1

\* socket.inet_aton(target): "ok", or the class of the exception it raises
inet_aton(s) ==
    IF ~Encodable(s) THEN "UnicodeEncodeError"
    ELSE IF IsDottedQuad(s) THEN "ok"
    ELSE "OSError"

\* socket.inet_pton(socket.AF_INET6, target)
inet_pton6(s) ==
    IF ~Encodable(s) THEN "UnicodeEncodeError"
    ELSE IF IsV6Literal(s) THEN "ok"
    ELSE "OSError"

\* what socket.gethostbyname can do: return an IPv4 address, or raise
GhOutcomes ==
    { [exc |-> "none", ip |-> a] : a \in ResolverAnswers }
        \cup { [exc |-> e, ip |-> << >>] : e \in { "gaierror", "UnicodeError" } }

\* ---------------------------------------------------------------- _resolve_target
Returned(name, ip) == [raised |-> "none", name |-> name, ip |-> ip]
Raised(exc, name) == [raised |-> exc, name |-> name, ip |-> None]

\* gh is what gethostbyname does if it is reached
_resolve_target(target, gh) ==
    IF inet_aton(target) = "ok" THEN Returned(target, Some(target))
    ELSE IF inet_aton(target) # "OSError" THEN Raised(inet_aton(target), target)
    ELSE IF inet_pton6(target) = "ok" THEN Returned(target, Some(target))
    ELSE IF inet_pton6(target) # "OSError" THEN Raised(inet_pton6(target), target)
    ELSE IF gh.exc = "none" THEN Returned(target, Some(gh.ip))
    ELSE Returned(target, None)

_is_ipv6(addr) == \E i \in DOMAIN addr : addr[i] = ":"

\* ---------------------------------------------------------------- scapy_ping_once
ICMP_ECHO_REPLY == 0

NoReply == [kind |-> "noreply", layers |-> {}, icmpType |-> ICMP_ECHO_REPLY,
            exc |-> "none", eperm |-> FALSE]
Reply(layers, t) == [kind |-> "reply", layers |-> layers, icmpType |-> t,
                     exc |-> "none", eperm |-> FALSE]
Raises(exc, eperm) == [kind |-> "raise", layers |-> {}, icmpType |-> ICMP_ECHO_REPLY,
                       exc |-> exc, eperm |-> eperm]

\* what building the packet and sr1(pkt, timeout) can do: time out (None), return an
\* answer, or raise.  eperm: str(e) contains "Operation not permitted".
NetOutcomes ==
    { NoReply,
      Reply({ "IP", "ICMP" }, ICMP_ECHO_REPLY),
      Reply({ "IP", "ICMP" }, 3),
      Reply({ "IP", "ICMP" }, 11),
      Reply({ "IPv6", "ICMPv6EchoReply" }, ICMP_ECHO_REPLY),
      Reply({ "IPv6", "ICMPv6DestUnreach" }, ICMP_ECHO_REPLY),
      Raises("PermissionError", TRUE),
      Raises("PermissionError", FALSE),
      Raises("OSError", TRUE),
      Raises("OSError", FALSE),
      Raises("Exception", FALSE) }

\* SendEcho with line 199's test of the ICMP type left out
SendEcho_AnyIcmpReply(ip, net) ==
    IF net.kind = "raise" THEN
        IF net.exc = "PermissionError" THEN "NO_PERM"
        ELSE IF net.exc = "OSError" THEN (IF net.eperm THEN "NO_PERM" ELSE "ERROR")
        ELSE "ERROR"
    ELSE IF _is_ipv6(ip) THEN
        IF net.kind = "reply" /\ "ICMPv6EchoReply" \in net.layers THEN "OK" ELSE "FAILED"
    ELSE
        IF net.kind = "reply" /\ "ICMP" \in net.layers THEN "OK" ELSE "FAILED"

\* lines 188-211: the try block and its except clauses
SendEcho(ip, net) ==
    IF net.kind = "raise" THEN
        IF net.exc = "PermissionError" THEN "NO_PERM"
        ELSE IF net.exc = "OSError" THEN (IF net.eperm THEN "NO_PERM" ELSE "ERROR")
        ELSE "ERROR"
    ELSE IF _is_ipv6(ip) THEN
        IF net.kind = "reply" /\ "ICMPv6EchoReply" \in net.layers THEN "OK" ELSE "FAILED"
    ELSE
        IF net.kind = "reply" /\ "ICMP" \in net.layers /\ net.icmpType = ICMP_ECHO_REPLY
        THEN "OK" ELSE "FAILED"

\* The return of one call: raised is the exception that left the call ("none" if it
\* returned), resolveCalls the calls of _resolve_target it made, resolved what that
\* call returned, sr1Dst the address the echo request was built for and sent to.
ProbeRet(raised, status, resolveCalls, resolved, sr1Dst) ==
    [raised |-> raised, status |-> status, resolveCalls |-> resolveCalls,
     resolved |-> resolved, sr1Dst |-> sr1Dst]

\* scapy_ping_once with the test of line 185 left out: an unresolved target is
\* probed under its name
scapy_ping_once_NoResolveCheck(dst, gh, net) ==
    IF ~SCAPY_AVAILABLE THEN ProbeRet("none", "NO_SCAPY", 0, None, None)
    ELSE LET r == _resolve_target(dst, gh) IN
        IF r.raised # "none" THEN ProbeRet(r.raised, "", 1, None, None)
        ELSE IF r.ip = None THEN ProbeRet("none", SendEcho(dst, net), 1, None, Some(dst))
        ELSE ProbeRet("none", SendEcho(r.ip[1], net), 1, r.ip, r.ip)

\* scapy_ping_once with lines 181-182 moved below the resolution of line 184
scapy_ping_once_ResolveFirst(dst, gh, net) ==
    LET r == _resolve_target(dst, gh) IN
        IF r.raised # "none" THEN ProbeRet(r.raised, "", 1, None, None)
        ELSE IF ~SCAPY_AVAILABLE THEN ProbeRet("none", "NO_SCAPY", 1, r.ip, None)
        ELSE IF r.ip = None THEN ProbeRet("none", "RESOLVE_FAIL", 1, None, None)
        ELSE ProbeRet("none", SendEcho(r.ip[1], net), 1, r.ip, r.ip)

scapy_ping_once(dst, gh, net) ==
    IF ~SCAPY_AVAILABLE THEN ProbeRet("none", "NO_SCAPY", 0, None, None)
    ELSE LET r == _resolve_target(dst, gh) IN
        IF r.raised # "none" THEN ProbeRet(r.raised, "", 1, None, None)
        ELSE IF r.ip = None THEN ProbeRet("none", "RESOLVE_FAIL", 1, None, None)
        ELSE ProbeRet("none", SendEcho(r.ip[1], net), 1, r.ip, r.ip)

ProbeStatus == { "OK", "FAILED", "NO_SCAPY", "NO_PERM", "RESOLVE_FAIL", "ERROR" }

\* ---------------------------------------------------------------- discovery
LocalOutcomes == { [exc |-> "OSError", ip |-> << >>], [exc |-> "none", ip |-> LocalAddr] }

get_local_ip(e) == IF e.exc # "none" THEN None ELSE Some(e.ip)

\* what dns.resolver.Resolver() and its nameservers can do
DnsOutcomes ==
    { [exc |-> "Exception", ns |-> << >>] }
        \cup { [exc |-> "none", ns |-> l] : l \in SeqsUpTo(DnsAddrs, MaxDns) }

get_dns_servers(e) ==
    IF ~DNSPYTHON_AVAILABLE THEN << >>
    ELSE IF e.exc # "none" THEN << >>
    ELSE e.ns

RECURSIVE LStrip(_)
LStrip(s) == IF s # << >> /\ Head(s) \in Whitespace THEN LStrip(Tail(s)) ELSE s

RECURSIVE RStrip(_)
RStrip(s) ==
    IF s # << >> /\ s[Len(s)] \in Whitespace THEN RStrip(SubSeq(s, 1, Len(s) - 1)) ELSE s

\* str.strip()
Strip(s) == RStrip(LStrip(s))

PublicAddr == << "7", ".", "7", ".", "7", ".", "7" >>
RawJson == << "{", "}" >>

Endpoints ==
    << [url |-> "https://api.ipify.org?format=json", kind |-> "json"],
       [url |-> "https://api64.ipify.org?format=json", kind |-> "json"],
       [url |-> "https://ifconfig.me/ip", kind |-> "text"] >>

\* One HTTP exchange: fail is the exception of requests.get or raise_for_status
\* ("none" if neither raises), json what r.json() gives, text the body r.text.
Failure(exc) ==
    [fail |-> exc, json |-> "invalid", hasIp |-> FALSE, ipIsStr |-> FALSE,
     ip |-> << >>, text |-> << >>]
TextBody(t) ==
    [fail |-> "none", json |-> "invalid", hasIp |-> FALSE, ipIsStr |-> FALSE,
     ip |-> << >>, text |-> t]
JsonBody(kind, hasIp, ipIsStr, ip) ==
    [fail |-> "none", json |-> kind, hasIp |-> hasIp, ipIsStr |-> ipIsStr,
     ip |-> ip, text |-> RawJson]

Responses ==
    { Failure("ConnectionError"), Failure("HTTPError"),
      TextBody(<< >>), TextBody(<< "\n" >>), TextBody(<< " " >> \o PublicAddr \o << "\n" >>),
      JsonBody("array", FALSE, FALSE, << >>),
      JsonBody("object", FALSE, FALSE, << >>),
      JsonBody("object", TRUE, FALSE, << >>),
      JsonBody("object", TRUE, TRUE, << >>),
      JsonBody("object", TRUE, TRUE, << " " >>),
      JsonBody("object", TRUE, TRUE, PublicAddr \o << "\n" >>) }

ResponseSeqs == [DOMAIN Endpoints -> Responses]

\* The for loop of lines 124-136 from endpoint k on; queried are the urls requested.
RECURSIVE TryEndpoints(_, _, _)
TryEndpoints(rs, k, queried) ==
    IF k > Len(Endpoints) THEN [result |-> None, queried |-> queried]
    ELSE LET q == Append(queried, Endpoints[k].url)
             r == rs[k]
         IN  IF r.fail # "none" THEN TryEndpoints(rs, k + 1, q)
             ELSE IF Endpoints[k].kind = "json" THEN
                 IF r.json # "object" THEN TryEndpoints(rs, k + 1, q)
                 ELSE IF ~r.hasIp THEN TryEndpoints(rs, k + 1, q)
                 ELSE IF ~r.ipIsStr THEN TryEndpoints(rs, k + 1, q)
                 ELSE IF r.ip = << >> THEN TryEndpoints(rs, k + 1, q)
                 ELSE [result |-> Some(Strip(r.ip)), queried |-> q]
             ELSE [result |-> Some(Strip(r.text)), queried |-> q]

\* get_public_ip requesting every endpoint before it picks the first value
get_public_ip_QueryAll(rs) ==
    IF ~REQUESTS_AVAILABLE THEN [result |-> None, queried |-> << >>]
    ELSE [result |-> TryEndpoints(rs, 1, << >>).result,
          queried |-> [i \in DOMAIN Endpoints |-> Endpoints[i].url]]

get_public_ip(rs) ==
    IF ~REQUESTS_AVAILABLE THEN [result |-> None, queried |-> << >>]
    ELSE TryEndpoints(rs, 1, << >>)

\* `if x:` on an Optional[str]
Truthy(o) == o # None /\ o[1] # << >>

\* What get_public_ip can return in the current environment
PublicIpReturns == { get_public_ip(rs) : rs \in ResponseSeqs }

\* Lines 219-239, what print_network_info prints: the local address or its
\* placeholder, the DNS servers (a placeholder when the list is empty), the public
\* address or its placeholder.
print_network_info(local_ip, dns, public_ip) ==
    [local |-> IF Truthy(local_ip) THEN local_ip ELSE None,
     dns |-> dns,
     public |-> IF Truthy(public_ip) THEN public_ip ELSE None]

\* ---------------------------------------------------------------- print_pings
Entry(label, name, ip, status) ==
    [label |-> label, name |-> name, ip |-> ip, status |-> status]

NoProbe == ProbeRet("none", "", 0, None, None)
NoLast == [kind |-> "none", dst |-> << >>, ownCalled |-> FALSE, own |-> None,
           probe |-> NoProbe]
Last(kind, dst, ownCalled, own, probe) ==
    [kind |-> kind, dst |-> dst, ownCalled |-> ownCalled, own |-> own, probe |-> probe]

\* lines 264-268: "name ip: status" if a name was resolved, else "name: status"
UserLine(name, ip, status) ==
    IF Truthy(ip) /\ name # ip[1] THEN Entry("user", name, ip, status)
    ELSE Entry("user", name, None, status)

\* where print_pings goes after the public resolver: the for loop over
\* user_targets, or its return (and main's return 0)
AfterPublic == IF user_targets # << >> THEN "user" ELSE "done"

\* Within one run the privilege of the process does not change: without it every
\* attempt to send raises a permission fault, with it none does.
PermissionFault(n) == n.kind = "raise" /\ (n.exc = "PermissionError" \/ n.eperm)
RunNetOutcomes ==
    IF privileged THEN { n \in NetOutcomes : ~PermissionFault(n) }
    ELSE { n \in NetOutcomes : PermissionFault(n) }

\* The resolver of a run answers a name with one address or fails; each call may
\* do either.
RunGhOutcomes == { g \in GhOutcomes : g.ip # Addr2 }

\* what one call of the probe, and one call of the resolver, can return in this run
Probes(t) == { scapy_ping_once(t, gh, net) : gh \in RunGhOutcomes, net \in RunNetOutcomes }
Resolutions(t) == { _resolve_target(t, gh) : gh \in RunGhOutcomes }

\* lines 247-250, one iteration of the loop over dns_list
PrintPings_Dns ==
    /\ pc = "dns"
    /\ dns_list # << >>
    /\ \E p \in Probes(dns_list[idx]) :
        LET ns == dns_list[idx]
        IN  /\ probeCalls' = probeCalls + 1
            /\ last' = Last("dns", ns, FALSE, None, p)
            /\ IF p.raised # "none"
               THEN /\ pc' = "crashed"
                    /\ fault' = p.raised
                    /\ UNCHANGED << report, idx >>
               ELSE /\ report' = Append(report, Entry("default DNS Server", ns, None, p.status))
                    /\ fault' = fault
                    /\ IF idx < Len(dns_list)
                       THEN pc' = "dns" /\ idx' = idx + 1
                       ELSE pc' = "public" /\ idx' = 1
    /\ UNCHANGED << SCAPY_AVAILABLE, DNSPYTHON_AVAILABLE, REQUESTS_AVAILABLE, privileged, no_ping,
                    quiet, user_targets, dns_list, snapshot, dnsCalls, arg, ret >>

\* lines 251-252
PrintPings_NoDns ==
    /\ pc = "dns"
    /\ dns_list = << >>
    /\ report' = Append(report, Entry("default DNS Server", NoneFound, None, "SKIPPED"))
    /\ pc' = "public"
    /\ UNCHANGED << SCAPY_AVAILABLE, DNSPYTHON_AVAILABLE, REQUESTS_AVAILABLE, privileged, no_ping,
                    quiet, user_targets, dns_list, idx, snapshot, dnsCalls, probeCalls,
                    last, fault, arg, ret >>

\* lines 255-257
PrintPings_Public ==
    /\ pc = "public"
    /\ \E p \in Probes(PUBLIC_DNS) :
            /\ probeCalls' = probeCalls + 1
            /\ last' = Last("public", PUBLIC_DNS, FALSE, None, p)
            /\ IF p.raised # "none"
               THEN /\ pc' = "crashed"
                    /\ fault' = p.raised
                    /\ report' = report
               ELSE /\ report' = Append(report, Entry("public DNS Server", PUBLIC_DNS, None, p.status))
                    /\ fault' = fault
                    /\ pc' = AfterPublic
    /\ UNCHANGED << SCAPY_AVAILABLE, DNSPYTHON_AVAILABLE, REQUESTS_AVAILABLE, privileged, no_ping,
                    quiet, user_targets, dns_list, idx, snapshot, dnsCalls, arg, ret >>

\* lines 261-268, one iteration of the loop over user_targets: own is the return
\* of line 262, p the return of line 263 (which resolves the target again)
PrintPings_User ==
    /\ pc = "user"
    /\ \E own \in Resolutions(user_targets[idx]), p \in Probes(user_targets[idx]) :
        LET t == user_targets[idx]
        IN  IF own.raised # "none"
            THEN /\ pc' = "crashed"
                 /\ fault' = own.raised
                 /\ last' = Last("user", t, TRUE, None, NoProbe)
                 /\ UNCHANGED << report, idx, probeCalls >>
            ELSE /\ probeCalls' = probeCalls + 1
                 /\ last' = Last("user", t, TRUE, own.ip, p)
                 /\ IF p.raised # "none"
                    THEN /\ pc' = "crashed"
                         /\ fault' = p.raised
                         /\ UNCHANGED << report, idx >>
                    ELSE /\ report' = Append(report, UserLine(own.name, own.ip, p.status))
                         /\ fault' = fault
                         /\ IF idx < Len(user_targets)
                            THEN pc' = "user" /\ idx' = idx + 1
                            ELSE pc' = "done" /\ idx' = idx
    /\ UNCHANGED << SCAPY_AVAILABLE, DNSPYTHON_AVAILABLE, REQUESTS_AVAILABLE, privileged, no_ping,
                    quiet, user_targets, dns_list, snapshot, dnsCalls, arg, ret >>

\* ---------------------------------------------------------------- main
\* line 277
Main_GetDns ==
    /\ pc = "main"
    /\ \E de \in DnsOutcomes : dns_list' = get_dns_servers(de)
    /\ dnsCalls' = dnsCalls + 1
    /\ pc' = "flags"
    /\ UNCHANGED << SCAPY_AVAILABLE, DNSPYTHON_AVAILABLE, REQUESTS_AVAILABLE, privileged, no_ping,
                    quiet, user_targets, idx, report, snapshot, probeCalls, last, fault,
                    arg, ret >>

\* line 279 tested after line 284: quiet wins over no_ping
InfoOnly_QuietFirst == no_ping /\ ~quiet

\* line 279
InfoOnly == no_ping

\* line 284
ShowInfo == ~quiet

\* lines 214-239, called from line 281 or line 286
Call_print_network_info ==
    /\ \E le \in LocalOutcomes, de \in DnsOutcomes, pub \in PublicIpReturns :
        snapshot' = Some(print_network_info(get_local_ip(le), get_dns_servers(de),
                                            pub.result))
    /\ dnsCalls' = dnsCalls + 1

\* lines 279-282
Main_InfoOnly ==
    /\ pc = "flags"
    /\ InfoOnly
    /\ Call_print_network_info
    /\ pc' = "done"
    /\ UNCHANGED << SCAPY_AVAILABLE, DNSPYTHON_AVAILABLE, REQUESTS_AVAILABLE, privileged, no_ping,
                    quiet, user_targets, dns_list, idx, report, probeCalls, last, fault,
                    arg, ret >>

\* lines 284-286, then the call of line 289
Main_ShowInfo ==
    /\ pc = "flags"
    /\ ~InfoOnly
    /\ ShowInfo
    /\ Call_print_network_info
    /\ pc' = "dns"
    /\ UNCHANGED << SCAPY_AVAILABLE, DNSPYTHON_AVAILABLE, REQUESTS_AVAILABLE, privileged, no_ping,
                    quiet, user_targets, dns_list, idx, report, probeCalls, last, fault,
                    arg, ret >>

\* line 284 false, then the call of line 289
Main_Quiet ==
    /\ pc = "flags"
    /\ ~InfoOnly
    /\ ~ShowInfo
    /\ pc' = "dns"
    /\ UNCHANGED << SCAPY_AVAILABLE, DNSPYTHON_AVAILABLE, REQUESTS_AVAILABLE, privileged, no_ping,
                    quiet, user_targets, dns_list, idx, report, snapshot, dnsCalls,
                    probeCalls, last, fault, arg, ret >>

Init ==
    /\ SCAPY_AVAILABLE \in BOOLEAN
    /\ DNSPYTHON_AVAILABLE \in BOOLEAN
    /\ REQUESTS_AVAILABLE \in BOOLEAN
    /\ privileged \in BOOLEAN
    /\ no_ping \in BOOLEAN
    /\ quiet \in BOOLEAN
    /\ user_targets \in SeqsUpTo(UserAlphabet, MaxTargets)
    /\ pc = "main"
    /\ dns_list = << >>
    /\ idx = 1
    /\ report = << >>
    /\ snapshot = None
    /\ dnsCalls = 0
    /\ probeCalls = 0
    /\ last = NoLast
    /\ fault = "none"
    /\ arg = << >>
    /\ ret = << >>

Next ==
    \/ Main_GetDns
    \/ Main_InfoOnly
    \/ Main_ShowInfo
    \/ Main_Quiet
    \/ PrintPings_Dns
    \/ PrintPings_NoDns
    \/ PrintPings_Public
    \/ PrintPings_User

Spec == Init /\ [][Next]_vars

\* ---------------------------------------------------------------- one probe
InitProbe ==
    /\ SCAPY_AVAILABLE \in BOOLEAN
    /\ DNSPYTHON_AVAILABLE = TRUE
    /\ REQUESTS_AVAILABLE = TRUE
    /\ privileged = TRUE
    /\ no_ping = FALSE
    /\ quiet = FALSE
    /\ user_targets = << >>
    /\ pc = "call"
    /\ dns_list = << >>
    /\ idx = 1
    /\ report = << >>
    /\ snapshot = None
    /\ dnsCalls = 0
    /\ probeCalls = 0
    /\ last = NoLast
    /\ fault = "none"
    /\ arg \in [dst : ProbeAlphabet, gh : GhOutcomes, net : NetOutcomes]
    /\ ret = NoProbe

Call_scapy_ping_once ==
    /\ pc = "call"
    /\ ret' = scapy_ping_once(arg.dst, arg.gh, arg.net)
    /\ probeCalls' = probeCalls + 1
    /\ pc' = "returned"
    /\ UNCHANGED << SCAPY_AVAILABLE, DNSPYTHON_AVAILABLE, REQUESTS_AVAILABLE, privileged, no_ping,
                    quiet, user_targets, dns_list, idx, report, snapshot, dnsCalls, last,
                    fault, arg >>

NextProbe == Call_scapy_ping_once

SpecProbe == InitProbe /\ [][NextProbe]_vars

\* ---------------------------------------------------------------- one public-address lookup
InitPublicIp ==
    /\ SCAPY_AVAILABLE = TRUE
    /\ DNSPYTHON_AVAILABLE = TRUE
    /\ REQUESTS_AVAILABLE \in BOOLEAN
    /\ privileged = TRUE
    /\ no_ping = FALSE
    /\ quiet = FALSE
    /\ user_targets = << >>
    /\ pc = "call"
    /\ dns_list = << >>
    /\ idx = 1
    /\ report = << >>
    /\ snapshot = None
    /\ dnsCalls = 0
    /\ probeCalls = 0
    /\ last = NoLast
    /\ fault = "none"
    /\ arg \in ResponseSeqs
    /\ ret = [result |-> None, queried |-> << >>]

Call_get_public_ip ==
    /\ pc = "call"
    /\ ret' = get_public_ip(arg)
    /\ pc' = "returned"
    /\ UNCHANGED << SCAPY_AVAILABLE, DNSPYTHON_AVAILABLE, REQUESTS_AVAILABLE, privileged, no_ping,
                    quiet, user_targets, dns_list, idx, report, snapshot, dnsCalls,
                    probeCalls, last, fault, arg >>

NextPublicIp == Call_get_public_ip

SpecPublicIp == InitPublicIp /\ [][NextPublicIp]_vars

\* ================================================================ claims
Terminal == pc \in { "done", "crashed" }

\* the probe target list of a run: resolvers, the public resolver, user targets
ProbeTargetList == dns_list \o << PUBLIC_DNS >> \o user_targets

\* C1: a run that is not info-only ends with exactly one (identifier, status) entry
\* per target of the probe target list and nothing else, in the order discovered DNS
\* servers, 8.8.8.8, user targets.
C1_OneEntryPerTargetInOrder ==
    (Terminal /\ ~no_ping) =>
        /\ Len(report) = Len(ProbeTargetList)
        /\ \A i \in DOMAIN report :
            /\ report[i].name = ProbeTargetList[i]
            /\ report[i].status \in ProbeStatus

\* C2: an info-only run never invokes the probe, whether or not quiet is set; it
\* can always step on until it is done, and is done having reported the network
\* snapshot.
C2_InfoOnlyNeverProbes ==
    no_ping =>
        /\ probeCalls = 0
        /\ report = << >>
        /\ pc \in { "main", "flags", "done" }
        /\ fault = "none"
        /\ (pc = "done" => snapshot # None)
        /\ (pc # "done" => ENABLED Next)

C2_Witness ==
    /\ no_ping /\ quiet
    /\ pc = "done"
    /\ SCAPY_AVAILABLE
    /\ dns_list # << >>
    /\ user_targets # << >>

\* a probe of print_pings has returned and its line is printed
Probed == last.kind # "none" /\ fault = "none"

\* every resolution attempted for the last target returned no address
ResolutionFailed ==
    /\ Probed
    /\ last.ownCalled \/ last.probe.resolveCalls > 0
    /\ last.ownCalled => last.own = None
    /\ last.probe.resolveCalls > 0 => last.probe.resolved = None

\* C3 as stated: for every target whose name resolution fails the final status
\* reported is RESOLVE_FAIL and no echo packet is sent, in every environment.
C3_ResolveFailAlways ==
    ResolutionFailed =>
        /\ report[Len(report)].status = "RESOLVE_FAIL"
        /\ last.probe.sr1Dst = None

\* C3 as amended: with the echo capability available, a target whose name
\* resolution inside the probe returns no address is reported RESOLVE_FAIL and no
\* echo packet is sent for it; with the capability unavailable the target is
\* reported NO_SCAPY, again without any echo packet.
C3_ResolveFailWhenCapable ==
    Probed =>
        /\ report # << >> /\ report[Len(report)].status = last.probe.status
        /\ (SCAPY_AVAILABLE /\ last.probe.resolved = None) =>
            /\ last.probe.resolveCalls > 0
            /\ last.probe.status = "RESOLVE_FAIL"
            /\ last.probe.sr1Dst = None
        /\ ~SCAPY_AVAILABLE =>
            /\ last.probe.status = "NO_SCAPY"
            /\ last.probe.sr1Dst = None

C3_Witness ==
    /\ Probed
    /\ SCAPY_AVAILABLE
    /\ last.kind = "user"
    /\ last.dst = HostName
    /\ last.probe.resolved = None
    /\ report[Len(report)].status = "RESOLVE_FAIL"

\* C4: without the echo capability the probe returns NO_SCAPY for every target,
\* valid or not, resolvable or not, having resolved nothing and sent nothing.
C4_NoCapabilityImmediately ==
    (pc = "returned" /\ ~SCAPY_AVAILABLE) =>
        /\ ret.raised = "none"
        /\ ret.status = "NO_SCAPY"
        /\ ret.resolveCalls = 0
        /\ ret.resolved = None
        /\ ret.sr1Dst = None

C4_Witness ==
    /\ pc = "returned"
    /\ ~SCAPY_AVAILABLE
    /\ arg.dst = BadArg
    /\ ret.status = "NO_SCAPY"

\* the answer is an echo reply of the type expected for the family of address a
ExpectedEchoReply(a, n) ==
    /\ n.kind = "reply"
    /\ IF \E i \in DOMAIN a : a[i] = ":"
       THEN "ICMPv6EchoReply" \in n.layers
       ELSE "ICMP" \in n.layers /\ n.icmpType = 0

\* C10: with the capability available and the target resolved, no reply gives
\* FAILED, an echo reply of the expected type gives OK, any other reply gives
\* FAILED, a permission fault gives NO_PERM and any other fault gives ERROR, for both
\* address families; OK is returned only for an echo reply of the expected type.
C10_StatusFollowsOutcome ==
    (pc = "returned" /\ SCAPY_AVAILABLE /\ ret.resolved # None) =>
        LET a == ret.resolved[1]
            n == arg.net
        IN  /\ ret.raised = "none"
            /\ ret.sr1Dst = ret.resolved
            /\ n.kind = "noreply" => ret.status = "FAILED"
            /\ ExpectedEchoReply(a, n) => ret.status = "OK"
            /\ (n.kind = "reply" /\ ~ExpectedEchoReply(a, n)) => ret.status = "FAILED"
            /\ (n.kind = "raise" /\ (n.exc = "PermissionError" \/ n.eperm))
                   => ret.status = "NO_PERM"
            /\ (n.kind = "raise" /\ n.exc # "PermissionError" /\ ~n.eperm)
                   => ret.status = "ERROR"
            /\ ret.status = "OK" => ExpectedEchoReply(a, n)

C10_Witness ==
    /\ pc = "returned"
    /\ SCAPY_AVAILABLE
    /\ arg.dst = HostName
    /\ ret.resolved = Some(Addr2)
    /\ arg.net.kind = "reply"
    /\ arg.net.icmpType = 3
    /\ ret.status = "FAILED"

\* response r makes endpoint k a failed endpoint: the exchange fails, the body of a
\* JSON endpoint is no object with a non-empty string ip, or the body of a text
\* endpoint is empty after trimming
Fails(k, r) ==
    \/ r.fail # "none"
    \/ Endpoints[k].kind = "json" /\ ~(r.json = "object" /\ r.hasIp /\ r.ipIsStr /\ r.ip # << >>)
    \/ Endpoints[k].kind = "text" /\ Strip(r.text) = << >>

Yields(k, r) == ~Fails(k, r)

YieldedValue(k, r) == IF Endpoints[k].kind = "json" THEN r.ip ELSE r.text

Urls(n) == [i \in 1..n |-> Endpoints[i].url]

\* C5: the endpoints are queried in list order, endpoint k+1 only after endpoint k
\* has failed, and the first endpoint that succeeds ends the lookup with its value:
\* no later endpoint is queried.
C5_FixedOrderFirstSuccess ==
    (pc = "returned" /\ REQUESTS_AVAILABLE) =>
        LET ok == { k \in DOMAIN Endpoints : Yields(k, arg[k]) }
            n == Len(ret.queried)
        IN  /\ n <= Len(Endpoints)
            /\ ret.queried = Urls(n)
            /\ \A k \in 1..(n - 1) : Fails(k, arg[k])
            /\ IF ok = { }
               THEN n = Len(Endpoints)
               ELSE LET first == CHOOSE k \in ok : \A j \in ok : k <= j
                    IN  /\ n = first
                        /\ ret.result = Some(Strip(YieldedValue(first, arg[first])))

C5_Witness ==
    /\ pc = "returned"
    /\ REQUESTS_AVAILABLE
    /\ arg[1].fail # "none"
    /\ Yields(2, arg[2])
    /\ Yields(3, arg[3])
    /\ Len(ret.queried) = 2
    /\ ret.result = Some(PublicAddr)

\* C6: an endpoint whose value is empty counts as failed, so the result is none or
\* a non-empty trimmed address.
C6_NoneOrNonEmpty ==
    pc = "returned" =>
        \/ ret.result = None
        \/ ret.result[1] # << >> /\ ret.result[1] = Strip(ret.result[1])

\* C7: get_dns_servers is invoked exactly once per run, and the list it returned is
\* both the one reported and the one the probe target list is built from.
C7_DiscoveryOnce ==
    pc = "done" =>
        /\ dnsCalls = 1
        /\ snapshot # None => snapshot[1].dns = dns_list

\* C8: no fault leaves the discovery, resolution and probe functions, and the run
\* completes with a status reported for every target of the probe target list.
C8_NoFaultEveryTargetReported ==
    /\ fault = "none"
    /\ pc # "crashed"
    /\ (pc = "done" /\ ~no_ping) =>
        \A i \in DOMAIN ProbeTargetList :
            \E j \in DOMAIN report : report[j].name = ProbeTargetList[i]

\* C9: the address shown in a user target's line is the address the echo request
\* was sent to, and the status agrees with that same resolution.
C9_ShownAddressIsProbedAddress ==
    (Probed /\ last.kind = "user") =>
        /\ last.probe.sr1Dst # None => last.own = last.probe.sr1Dst
        /\ last.probe.status = "RESOLVE_FAIL" => last.own = None

====
